---------------------------- MODULE Spec2Model ----------------------------
(***************************************************************************)
(* Model of SublimeLinter-flow's linter.py (class Flow).                   *)
(*                                                                         *)
(* Python values are tagged records: None, bool, int, str, list, dict.     *)
(* A Python str is a TLA+ string; a dict is a function from key strings to *)
(* values.  An operator that models Python code returns either a value or  *)
(* Raise(e), the exception it leaves with.                                 *)
(***************************************************************************)
EXTENDS Integers, Sequences, FiniteSets, TLC

VARIABLES
    filename,      \* self.filename, the file under inspection
    settings,      \* self.settings, the inline settings (a Python dict)
    runPc,         \* position inside Flow.run
    code,          \* the source text handed to Flow.run
    check,         \* run's local `check`: the check command's output
    invocations,   \* the commands handed to super().run, in order
    runResult,     \* what Flow.run returned
    calls,         \* the find_errors calls made so far, each with its iterator
    heap,          \* the set objects allocated by find_errors (set())
    arg,           \* the argument of the function under study (pure-function specs)
    ret            \* its result

vars == <<filename, settings, runPc, code, check, invocations, runResult,
          calls, heap, arg, ret>>

-----------------------------------------------------------------------------
(* Python values *)

None == [t |-> "None"]
PyBool(b) == [t |-> "bool", b |-> b]
PyInt(n) == [t |-> "int", n |-> n]
PyStr(s) == [t |-> "str", s |-> s]
PyList(a) == [t |-> "list", a |-> a]
PyDict(d) == [t |-> "dict", d |-> d]
EmptyDict == PyDict([k \in {} |-> None])
Raise(e) == [t |-> "raise", e |-> e]
Unset == [t |-> "unset"]

IsRaise(v) == v.t = "raise"
IsNone(v) == v.t = "None"

\* bool(v): Python truthiness
Truthy(v) ==
    CASE v.t = "None" -> FALSE
      [] v.t = "bool" -> v.b
      [] v.t = "int" -> v.n # 0
      [] v.t = "str" -> v.s # ""
      [] v.t = "list" -> v.a # <<>>
      [] v.t = "dict" -> DOMAIN v.d # {}
      [] OTHER -> TRUE

\* obj.get(key, default); AttributeError when obj has no .get
PyGet(obj, key, default) ==
    IF IsRaise(obj) THEN obj
    ELSE IF obj.t # "dict" THEN Raise("AttributeError")
    ELSE IF key \in DOMAIN obj.d THEN obj.d[key] ELSE default

\* obj[key] on a dict
PyItem(obj, key) ==
    IF IsRaise(obj) THEN obj
    ELSE IF obj.t = "dict"
         THEN IF key \in DOMAIN obj.d THEN obj.d[key] ELSE Raise("KeyError")
    ELSE IF obj.t \in {"str", "list"} THEN Raise("TypeError")
    ELSE Raise("TypeError")

\* seq[0]
PyFirst(obj) ==
    IF IsRaise(obj) THEN obj
    ELSE IF obj.t = "list"
         THEN IF obj.a = <<>> THEN Raise("IndexError") ELSE obj.a[1]
    ELSE IF obj.t = "str"
         THEN IF obj.s = "" THEN Raise("IndexError") ELSE PyStr(SubSeq(obj.s, 1, 1))
    ELSE IF obj.t = "dict"
         THEN Raise("KeyError")
    ELSE Raise("TypeError")

\* a - b
PySub(a, b) ==
    IF IsRaise(a) THEN a
    ELSE IF IsRaise(b) THEN b
    ELSE IF a.t \in {"int", "bool"} /\ b.t \in {"int", "bool"}
         THEN PyInt((IF a.t = "int" THEN a.n ELSE IF a.b THEN 1 ELSE 0)
                  - (IF b.t = "int" THEN b.n ELSE IF b.b THEN 1 ELSE 0))
    ELSE Raise("TypeError")

\* a == b
PyEq(a, b) ==
    IF a.t = b.t THEN a = b
    ELSE IF a.t \in {"int", "bool"} /\ b.t \in {"int", "bool"}
         THEN PySub(a, b) = PyInt(0)
    ELSE FALSE

-----------------------------------------------------------------------------
(* Python str operations *)

Max(a, b) == IF a > b THEN a ELSE b
Min(a, b) == IF a < b THEN a ELSE b

Whitespace == {" ", "\t", "\n"}

CharAt(s, i) == IF 1 <= i /\ i <= Len(s) THEN SubSeq(s, i, i) ELSE ""

RECURSIVE LStrip(_)
LStrip(s) ==
    IF s # "" /\ CharAt(s, 1) \in Whitespace THEN LStrip(Tail(s)) ELSE s

RECURSIVE RStrip(_)
RStrip(s) ==
    IF s # "" /\ CharAt(s, Len(s)) \in Whitespace
    THEN RStrip(SubSeq(s, 1, Len(s) - 1)) ELSE s

\* s.strip()
Strip(s) == RStrip(LStrip(s))

\* a slice bound (None or an int) resolved against a length, as s[lo:hi] does
SliceIndex(b, len, dflt) ==
    IF b.t = "None" THEN dflt
    ELSE IF b.n < 0 THEN Max(len + b.n, 0)
    ELSE Min(b.n, len)

\* a slice that starts one character late, at the 1-based column itself
SliceFromColumn(s, lo, hi) ==
    LET a == SliceIndex(lo, Len(s), 0) + 1
        b == SliceIndex(hi, Len(s), Len(s))
    IN IF a < b THEN SubSeq(s, a + 1, b) ELSE ""

\* s[lo:hi] for a str s; lo and hi are None or int values
SliceStr(s, lo, hi) ==
    LET a == SliceIndex(lo, Len(s), 0)
        b == SliceIndex(hi, Len(s), Len(s))
    IN IF a < b THEN SubSeq(s, a + 1, b) ELSE ""

\* obj[lo:hi]
PySlice(obj, lo, hi) ==
    IF IsRaise(obj) THEN obj
    ELSE IF IsRaise(lo) THEN lo
    ELSE IF IsRaise(hi) THEN hi
    ELSE IF obj.t # "str" THEN Raise("TypeError")
    ELSE IF lo.t \notin {"None", "int"} \/ hi.t \notin {"None", "int"}
         THEN Raise("TypeError")
    ELSE PyStr(SliceStr(obj.s, lo, hi))

\* obj.strip()
PyStrip(obj) ==
    IF IsRaise(obj) THEN obj
    ELSE IF obj.t # "str" THEN Raise("AttributeError")
    ELSE PyStr(Strip(obj.s))

\* re.search(pattern, s) for a pattern without metacharacters
Contains(s, pat) ==
    \E i \in 1..Len(s) : SubSeq(s, i, Min(i + Len(pat) - 1, Len(s))) = pat

-----------------------------------------------------------------------------
(* json.loads: a recursive-descent reading of the JSON text.  Objects,     *)
(* arrays, strings (with the escapes \" \\ \/ \n \t), integers and the     *)
(* literals true, false, null are read; anything else is a decoding error, *)
(* which json.loads reports as json.JSONDecodeError, a ValueError.         *)

JsonWs == {" ", "\t", "\n", "\r"}
DigitChars == "0123456789"
IsDigit(c) == \E d \in 1..10 : SubSeq(DigitChars, d, d) = c
DigitVal(c) == (CHOOSE d \in 1..10 : SubSeq(DigitChars, d, d) = c) - 1

\* whether the text w stands at position i of s
LitAt(s, i, w) == i + Len(w) - 1 <= Len(s) /\ SubSeq(s, i, i + Len(w) - 1) = w

ParseOk(v, i) == [ok |-> TRUE, v |-> v, i |-> i]
ParseFail == [ok |-> FALSE, v |-> None, i |-> 0]

RECURSIVE SkipWs(_, _)
SkipWs(s, i) == IF CharAt(s, i) \in JsonWs THEN SkipWs(s, i + 1) ELSE i

\* the characters of a string literal, from position i (after the opening quote)
RECURSIVE ScanStr(_, _, _)
ScanStr(s, i, acc) ==
    LET c == CharAt(s, i)
        d == CharAt(s, i + 1)
    IN IF c = "" \/ c \in {"\n", "\t", "\r"} THEN ParseFail
       ELSE IF c = "\"" THEN ParseOk(PyStr(acc), i + 1)
       ELSE IF c = "\\"
            THEN IF d \in {"\"", "\\", "/"} THEN ScanStr(s, i + 2, acc \o d)
                 ELSE IF d = "n" THEN ScanStr(s, i + 2, acc \o "\n")
                 ELSE IF d = "t" THEN ScanStr(s, i + 2, acc \o "\t")
                 ELSE ParseFail
       ELSE ScanStr(s, i + 1, acc \o c)

\* the digits of an integer, from position i
RECURSIVE ScanDigits(_, _, _)
ScanDigits(s, i, acc) ==
    IF IsDigit(CharAt(s, i))
    THEN ScanDigits(s, i + 1, 10 * acc + DigitVal(CharAt(s, i)))
    ELSE ParseOk(PyInt(acc), i)

\* an integer: 0, or a nonzero digit and more digits
ScanInt(s, i) ==
    IF CharAt(s, i) = "0" THEN ParseOk(PyInt(0), i + 1)
    ELSE IF IsDigit(CharAt(s, i)) THEN ScanDigits(s, i, 0)
    ELSE ParseFail

RECURSIVE ParseValue(_, _), ParseElements(_, _, _), ParseMembers(_, _, _)
ParseValue(s, i0) ==
    LET i == SkipWs(s, i0)
        c == CharAt(s, i)
    IN IF c = "{"
       THEN IF CharAt(s, SkipWs(s, i + 1)) = "}"
            THEN ParseOk(EmptyDict, SkipWs(s, i + 1) + 1)
            ELSE ParseMembers(s, SkipWs(s, i + 1), [k \in {} |-> None])
       ELSE IF c = "["
       THEN IF CharAt(s, SkipWs(s, i + 1)) = "]"
            THEN ParseOk(PyList(<<>>), SkipWs(s, i + 1) + 1)
            ELSE ParseElements(s, i + 1, <<>>)
       ELSE IF c = "\"" THEN ScanStr(s, i + 1, "")
       ELSE IF c = "-"
       THEN LET r == ScanInt(s, i + 1)
            IN IF r.ok THEN ParseOk(PyInt(0 - r.v.n), r.i) ELSE ParseFail
       ELSE IF IsDigit(c) THEN ScanInt(s, i)
       ELSE IF LitAt(s, i, "true") THEN ParseOk(PyBool(TRUE), i + 4)
       ELSE IF LitAt(s, i, "false") THEN ParseOk(PyBool(FALSE), i + 5)
       ELSE IF LitAt(s, i, "null") THEN ParseOk(None, i + 4)
       ELSE ParseFail

\* the elements of an array, from the position of an element
ParseElements(s, i, acc) ==
    LET r == ParseValue(s, i)
        j == SkipWs(s, r.i)
    IN IF ~r.ok THEN ParseFail
       ELSE IF CharAt(s, j) = "," THEN ParseElements(s, j + 1, Append(acc, r.v))
       ELSE IF CharAt(s, j) = "]" THEN ParseOk(PyList(Append(acc, r.v)), j + 1)
       ELSE ParseFail

\* the members of an object, from the position of a key
ParseMembers(s, i, acc) ==
    LET k == IF CharAt(s, i) = "\"" THEN ScanStr(s, i + 1, "") ELSE ParseFail
        c == SkipWs(s, k.i)
        r == IF k.ok /\ CharAt(s, c) = ":" THEN ParseValue(s, c + 1) ELSE ParseFail
        j == SkipWs(s, r.i)
        new == [x \in DOMAIN acc \cup {k.v.s} |-> IF x = k.v.s THEN r.v ELSE acc[x]]
    IN IF ~r.ok THEN ParseFail
       ELSE IF CharAt(s, j) = "," THEN ParseMembers(s, SkipWs(s, j + 1), new)
       ELSE IF CharAt(s, j) = "}" THEN ParseOk(PyDict(new), j + 1)
       ELSE ParseFail

\* json.loads(s)
json_loads(s) ==
    LET r == ParseValue(s, 1)
    IN IF ~r.ok THEN Raise("ValueError")
       ELSE IF SkipWs(s, r.i) <= Len(s) THEN Raise("ValueError")
       ELSE r.v

-----------------------------------------------------------------------------
(* Helpers for Python sequences and iteration *)

\* the first exception among the values of seq, in order; dflt when there is none
FirstRaise(seq, dflt) ==
    IF \E i \in 1..Len(seq) : IsRaise(seq[i])
    THEN seq[CHOOSE i \in 1..Len(seq) :
                 IsRaise(seq[i]) /\ \A j \in 1..(i - 1) : ~IsRaise(seq[j])]
    ELSE dflt

\* what iterating a lazily produced sequence delivers: its items up to and
\* including the first exception
UpToRaise(seq) ==
    IF \E i \in 1..Len(seq) : IsRaise(seq[i])
    THEN SubSeq(seq, 1, CHOOSE i \in 1..Len(seq) :
                            IsRaise(seq[i]) /\ \A j \in 1..(i - 1) : ~IsRaise(seq[j]))
    ELSE seq

\* an arbitrary enumeration of a finite set (dict keys)
RECURSIVE SetToSeq(_)
SetToSeq(S) ==
    IF S = {} THEN <<>> ELSE LET x == CHOOSE x \in S : TRUE IN <<x>> \o SetToSeq(S \ {x})

\* iter(v): the items a for loop, map or yield from sees; TypeError when v is
\* not iterable
IterItems(v) ==
    IF IsRaise(v) THEN <<v>>
    ELSE IF v.t = "list" THEN v.a
    ELSE IF v.t = "str" THEN [i \in 1..Len(v.s) |-> PyStr(SubSeq(v.s, i, i))]
    ELSE IF v.t = "dict"
         THEN LET ks == SetToSeq(DOMAIN v.d) IN [i \in 1..Len(ks) |-> PyStr(ks[i])]
    ELSE <<Raise("TypeError")>>

RECURSIVE JoinStr(_, _)
JoinStr(strs, sep) ==
    IF strs = <<>> THEN ""
    ELSE IF Len(strs) = 1 THEN strs[1]
    ELSE strs[1] \o sep \o JoinStr(Tail(strs), sep)

\* sep.join(items); TypeError when an item is not a str
PyJoin(sep, items) ==
    IF \E i \in 1..Len(items) : IsRaise(items[i]) THEN FirstRaise(items, None)
    ELSE IF \E i \in 1..Len(items) : items[i].t # "str" THEN Raise("TypeError")
    ELSE PyStr(JoinStr([i \in 1..Len(items) |-> items[i].s], sep))

\* ' ' * n
RECURSIVE Spaces(_)
Spaces(n) == IF n <= 0 THEN "" ELSE " " \o Spaces(n - 1)

-----------------------------------------------------------------------------
(* linter.py *)

\* _traverse_extra: the messages the generator yields, ending with the
\* exception it dies of when there is one
RECURSIVE _traverse_extra(_), TraverseNodes(_)
_traverse_extra(flow_extra) ==
    IF IsNone(flow_extra) THEN <<>>
    ELSE UpToRaise(TraverseNodes(IterItems(flow_extra)))

\* the body of `for x in flow_extra`
TraverseNodes(xs) ==
    IF xs = <<>> THEN <<>>
    ELSE IF IsRaise(Head(xs)) THEN <<Head(xs)>>
    ELSE IterItems(PyGet(Head(xs), "message", None))
         \o (IF IsRaise(PyGet(Head(xs), "children", None))
             THEN <<PyGet(Head(xs), "children", None)>>
             ELSE _traverse_extra(PyGet(Head(xs), "children", None)))
         \o TraverseNodes(Tail(xs))

\* a chain that puts the `message` list before the `operation` message
MessageListFirst(flow_error) ==
    UpToRaise(IterItems(PyItem(flow_error, "message"))
              \o (IF "operation" \in DOMAIN flow_error.d
                  THEN <<flow_error.d["operation"]>> ELSE <<>>)
              \o _traverse_extra(PyGet(flow_error, "extra", None)))

\* the chain of candidate messages of Flow._find_matching_msg_for_file
CandidateMessages(flow_error) ==
    UpToRaise((IF "operation" \in DOMAIN flow_error.d
               THEN <<flow_error.d["operation"]>> ELSE <<>>)
              \o IterItems(PyItem(flow_error, "message"))
              \o _traverse_extra(PyGet(flow_error, "extra", None)))

\* message.get('loc', {}).get('source')
MessageSource(message) == PyGet(PyGet(message, "loc", EmptyDict), "source", None)

\* the for loop of Flow._find_matching_msg_for_file
RECURSIVE FirstMatching(_, _)
FirstMatching(messages, name) ==
    IF messages = <<>> THEN None
    ELSE IF IsRaise(Head(messages)) THEN Head(messages)
    ELSE IF IsRaise(MessageSource(Head(messages))) THEN MessageSource(Head(messages))
    ELSE IF PyEq(MessageSource(Head(messages)), PyStr(name)) THEN Head(messages)
    ELSE FirstMatching(Tail(messages), name)

\* Flow._find_matching_msg_for_file
_find_matching_msg_for_file(flow_error) ==
    IF IsRaise(PyItem(flow_error, "message")) THEN PyItem(flow_error, "message")
    ELSE FirstMatching(CandidateMessages(flow_error), filename)

\* Flow._format_message
_format_message(flow_message) ==
    LET msg_type == PyGet(flow_message, "type", None)
        snippet == PyGet(flow_message, "context", PyStr(""))
        loc == PyGet(flow_message, "loc", EmptyDict)
        start == PySub(PyGet(PyGet(loc, "start", EmptyDict), "column", PyInt(1)),
                       PyInt(1))
        len_snippet == IF snippet.t = "str" THEN PyInt(Len(snippet.s))
                       ELSE Raise("TypeError")
        end == IF IsRaise(len_snippet) THEN len_snippet
               ELSE PyGet(PyGet(loc, "end", EmptyDict), "column", len_snippet)
        error_descr == PyStrip(PyGet(flow_message, "descr", None))
        error_string == PySlice(snippet, start, end)
        steps == <<start, end, error_descr, error_string>>
    IN IF IsRaise(msg_type) THEN msg_type
       ELSE IF PyEq(msg_type, PyStr("Comment"))
       THEN PyStrip(PyGet(flow_message, "descr", PyStr("")))
       ELSE IF PyEq(msg_type, PyStr("Blame"))
       THEN IF IsNone(snippet) THEN PyStr("")
            ELSE IF Truthy(loc)
            THEN IF FirstRaise(steps, None) # None THEN FirstRaise(steps, None)
                 ELSE IF error_string # error_descr
                 THEN PyStrip(PyStr(error_string.s \o " (" \o error_descr.s \o ")"))
                 ELSE PyStrip(snippet)
            ELSE PyStrip(snippet)
       ELSE None

\* the tuple Flow._error_to_tuple and the coverage mappers return
Tuple(match, line, col, error, warning, message, near) ==
    [t |-> "tuple", match |-> match, line |-> line, col |-> col, error |-> error,
     warning |-> warning, message |-> message, near |-> near]

\* a position left 1-based
KeepOneBased(v) == v

\* `if v: v -= 1`
DecrementIfTruthy(v) == IF Truthy(v) THEN PySub(v, PyInt(1)) ELSE v

\* Flow._error_to_tuple
_error_to_tuple(error) ==
    LET error_messages == PyGet(error, "message", PyList(<<>>))
        operation == PyGet(error, "operation", EmptyDict)
        op_loc == PyGet(operation, "loc", None)
        first_loc == IF IsRaise(op_loc) \/ Truthy(op_loc) THEN op_loc
                     ELSE PyGet(PyFirst(error_messages), "loc", EmptyDict)
        message == _find_matching_msg_for_file(error)
        error_context == PyGet(message, "context", PyStr(""))
        loc == PyGet(message, "loc", None)
        message_start == PyGet(loc, "start", EmptyDict)
        message_end == PyGet(loc, "end", EmptyDict)
        line == DecrementIfTruthy(PyGet(message_start, "line", None))
        col == DecrementIfTruthy(PyGet(message_start, "column", None))
        end == PyGet(message_end, "column", None)
        end_line == PySub(PyGet(message_end, "line", None), PyInt(1))
        sliced == PySlice(error_context, col, end)
        near == IF IsRaise(end) THEN end
                ELSE IF ~Truthy(end) THEN None
                ELSE IF IsRaise(end_line) THEN end_line
                ELSE IF ~PyEq(line, end_line) THEN None
                ELSE IF IsRaise(sliced) THEN sliced
                ELSE PyStr("\"" \o sliced.s \o "\"")
        kind == PyGet(error, "kind", PyBool(FALSE))
        level == PyGet(error, "level", PyBool(FALSE))
        formatted == UpToRaise([i \in 1..Len(IterItems(error_messages)) |->
                                   _format_message(IterItems(error_messages)[i])])
        combined_message == PyStrip(PyJoin(" ", formatted))
        before == <<error_messages, operation, first_loc, message>>
        after == <<error_context, loc, message_start, message_end, line, col,
                   end, near, combined_message>>
    IN IF FirstRaise(before, None) # None THEN FirstRaise(before, None)
       ELSE IF IsNone(message)
       THEN Tuple(PyBool(FALSE), PyInt(0), PyInt(0), PyBool(FALSE), PyBool(FALSE),
                  PyStr(""), None)
       ELSE IF FirstRaise(after, None) # None THEN FirstRaise(after, None)
       ELSE Tuple(PyBool(TRUE), line, col,
                  IF PyEq(level, PyStr("error")) THEN kind ELSE PyBool(FALSE),
                  IF PyEq(level, PyStr("warning")) THEN kind ELSE PyBool(FALSE),
                  combined_message, near)

\* the ditto mark '\u3003' of the coverage mappers
DittoMark == "<U+3003>"
UncoveredText == "Code is not covered by Flow (any type)"
EmptyText == "Code is not covered by Flow (empty type)"

\* The body shared by Flow._uncovered_to_tuple and Flow._empty_to_tuple, which
\* differ in the descriptive text only: the tuple (or the exception) and the
\* lines set as the call leaves it.
CoverageToTuple(loc, lines, text) ==
    LET match == PyGet(loc, "source", None)
        line == PySub(PyItem(PyItem(loc, "start"), "line"), PyInt(1))
        col == PySub(PyItem(PyItem(loc, "start"), "column"), PyInt(1))
        width == PySub(PyItem(PyItem(loc, "end"), "offset"),
                       PyItem(PyItem(loc, "start"), "offset"))
        steps == <<match, line, col, width>>
    IN IF FirstRaise(steps, None) # None
       THEN [tuple |-> FirstRaise(steps, None), lines |-> lines]
       ELSE [tuple |-> Tuple(PyBool(PyEq(PyStr(filename), match)), line, col,
                             PyBool(FALSE), PyStr("coverage"),
                             PyStr(IF line \notin lines THEN text ELSE DittoMark),
                             PyStr(Spaces(width.n))),
             lines |-> lines \cup {line}]

\* Flow._uncovered_to_tuple
_uncovered_to_tuple(uncovered, uncovered_lines) ==
    CoverageToTuple(uncovered, uncovered_lines, UncoveredText)

\* Flow._empty_to_tuple
_empty_to_tuple(empty, empty_lines) ==
    CoverageToTuple(empty, empty_lines, EmptyText)

\* `check, coverage = json.loads(output)`: the two items, or the exception
Unpack2(v) ==
    IF IsRaise(v) THEN v
    ELSE IF v.t \in {"None", "int", "bool"} THEN Raise("TypeError")
    ELSE IF Len(IterItems(v)) # 2 THEN Raise("ValueError")
    ELSE PyList(IterItems(v))

\* len(v) / iter(v) of an argument that must be a collection
Sized(v) ==
    IF IsRaise(v) THEN v
    ELSE IF v.t \in {"None", "int", "bool"} THEN Raise("TypeError")
    ELSE v

\* one set() handed to both mappers
OneSetForBoth(h) == <<Len(h) + 1, Len(h) + 1>>

\* two sets made once and handed to the mappers of every call
DefaultSets(h) == <<1, 2>>

\* the two set() objects find_errors hands to repeat(): their places in the heap
AllocSets(h) == <<Len(h) + 1, Len(h) + 2>>

\* the chain find_errors returns, or the exception of building it
\* (len(errors) and the iter() of each map)
ChainOf(errors, uncovered, empty) ==
    IF FirstRaise(<<errors, uncovered, empty>>, None) # None
    THEN [kind |-> "raise", exc |-> FirstRaise(<<errors, uncovered, empty>>, None)]
    ELSE [kind |-> "chain", errors |-> IterItems(errors),
          uncovered |-> IterItems(uncovered), empty |-> IterItems(empty)]

\* find_errors after `check, coverage = json.loads(output)`, `except ValueError`
\* included
AfterLoads(pair) ==
    IF pair = Raise("ValueError") THEN [kind |-> "list"]
    ELSE IF IsRaise(pair) THEN [kind |-> "raise", exc |-> pair]
    ELSE ChainOf(Sized(PyGet(pair.a[1], "errors", PyList(<<>>))),
                 Sized(PyGet(PyGet(pair.a[2], "expressions", EmptyDict),
                             "uncovered_locs", PyList(<<>>))),
                 Sized(PyGet(PyGet(pair.a[2], "expressions", EmptyDict),
                             "empty_locs", PyList(<<>>))))

\* Flow.find_errors up to its return: either the list [] it returns, the
\* exception it raises, or the lazy chain with the collections it will map
find_errors(output) == AfterLoads(Unpack2(json_loads(output)))

\* a setting taken as true whenever it has a true value, 'false' included
AnyTruthyValue(s) == PyGet(settings, s, None)

\* Flow._inline_setting_bool
_inline_setting_bool(s) ==
    LET setting == PyGet(settings, s, None)
    IN IF ~Truthy(setting) THEN setting
       ELSE PyBool(\A x \in {"False", "false", "0"} : ~PyEq(setting, PyStr(x)))

\* Flow.cmd
cmd ==
    <<"flow", "check-contents", "$file">>
    \o (IF Truthy(PyItem(settings, "show-all-errors"))
        THEN <<"--show-all-errors">> ELSE <<>>)
    \o <<"--json">>

\* _build_coverage_cmd
_build_coverage_cmd(c) ==
    SubSeq(c, 1, (CHOOSE i \in 1..Len(c) :
                      c[i] = "check-contents"
                      /\ \A j \in 1..(i - 1) : c[j] # "check-contents") - 1)
    \o <<"coverage", "--path", "@", "--json">>

\* '[%s,%s]' % (check, coverage)
FormatPair(a, b) == "[" \o a \o "," \o b \o "]"

-----------------------------------------------------------------------------
(* Inputs: what flow prints, as JSON text (tsrc/flowResult.js, quoted in the *)
(* docstrings of linter.py), and the parsed errors it contains              *)

MaxMsgs == 2      \* longest `message` list of an error under study
MaxLocs == 2      \* longest uncovered_locs / empty_locs list
MaxLine == 2      \* highest line a coverage location starts on
MaxCol == 3       \* highest column of a message location under study
MaxCalls == 2     \* find_errors calls whose sequences are open at once

ThisFile == "f.js"
OtherFile == "g.js"

DigitStr(d) == SubSeq(DigitChars, d + 1, d + 1)
RECURSIVE IntStr(_)
IntStr(n) == IF n < 10 THEN DigitStr(n) ELSE IntStr(n \div 10) \o DigitStr(n % 10)

Quoted(s) == "\"" \o s \o "\""

\* a FlowLoc as flow prints it
LocJson(source, sl, sc, el, ec) ==
    "{\"source\":" \o Quoted(source)
    \o ",\"start\":{\"line\":" \o IntStr(sl) \o ",\"column\":" \o IntStr(sc) \o "}"
    \o ",\"end\":{\"line\":" \o IntStr(el) \o ",\"column\":" \o IntStr(ec) \o "}}"

\* the error of the specification's end-to-end scenario A
ScenarioAError ==
    "{\"kind\":\"InferError\",\"level\":\"error\",\"message\":[{\"descr\":\"bad\",\"type\":\"Comment\"}],\"operation\":{\"type\":\"Blame\",\"context\":\"x\",\"loc\":{\"source\":\"f.js\",\"start\":{\"line\":2,\"column\":3},\"end\":{\"line\":2,\"column\":4}}}}"

\* a warning located in this file by its second message
WarningError ==
    "{\"kind\":\"LintWarning\",\"level\":\"warning\",\"message\":[{\"descr\":\"unclear type\",\"type\":\"Comment\",\"context\":null},{\"descr\":\"any\",\"type\":\"Blame\",\"context\":\"var a: any\",\"loc\":"
    \o LocJson(ThisFile, 1, 8, 1, 10) \o "}]}"

\* an error all of whose messages are located in another file
OtherFileError ==
    "{\"kind\":\"InferError\",\"level\":\"error\",\"message\":[{\"descr\":\"number\",\"type\":\"Blame\",\"context\":\"y = 1\",\"loc\":"
    \o LocJson(OtherFile, 1, 1, 1, 1) \o "}]}"

\* an error with an empty `message` list and no `operation`, located by `extra`
EmptyMessageError ==
    "{\"kind\":\"InferError\",\"level\":\"error\",\"message\":[],\"extra\":[{\"message\":[{\"descr\":\"x\",\"type\":\"Blame\",\"context\":\"x\",\"loc\":"
    \o LocJson(ThisFile, 1, 1, 1, 1) \o "}]}]}"

\* an error whose message in this file has a null `context`
NullContextError ==
    "{\"kind\":\"InferError\",\"level\":\"error\",\"message\":[{\"descr\":\"d\",\"type\":\"Blame\",\"context\":null,\"loc\":"
    \o LocJson(ThisFile, 1, 1, 1, 1) \o "}]}"

\* an error whose message in this file has a `loc` without `end.line`
NoEndLineError ==
    "{\"kind\":\"InferError\",\"level\":\"error\",\"message\":[{\"descr\":\"d\",\"type\":\"Blame\",\"context\":\"q\",\"loc\":{\"source\":\"f.js\",\"start\":{\"line\":1,\"column\":1},\"end\":{\"column\":1}}}]}"

\* an error with a message whose `type` is neither Blame nor Comment
OtherTypeError ==
    "{\"kind\":\"InferError\",\"level\":\"error\",\"message\":[{\"descr\":\"d\",\"type\":\"Other\",\"context\":\"q\",\"loc\":"
    \o LocJson(ThisFile, 1, 1, 1, 1) \o "}]}"

\* errors of the RawError shape, optional fields absent or null
ShapedErrors ==
    {ScenarioAError, WarningError, OtherFileError, EmptyMessageError,
     NullContextError, NoEndLineError, OtherTypeError}

\* the check command's JSON report
CheckJson(errs) ==
    "{\"errors\":[" \o JoinStr(errs, ",") \o "],\"passed\":"
    \o (IF errs = <<>> THEN "true" ELSE "false") \o "}"

CheckTexts ==
    {CheckJson(<<>>)} \cup {CheckJson(<<e>>) : e \in ShapedErrors}
    \cup {CheckJson(<<a, b>>) : a, b \in {ScenarioAError, OtherFileError}}

\* the i-th location of a coverage list, on the given line
CoverageLocJson(line, i) ==
    "{\"source\":\"f.js\",\"type\":\"SourceFile\",\"start\":{\"line\":" \o IntStr(line)
    \o ",\"column\":" \o IntStr(2 * i - 1)
    \o ",\"offset\":" \o IntStr(10 * (line - 1) + 2 * i - 2)
    \o "},\"end\":{\"line\":" \o IntStr(line)
    \o ",\"column\":" \o IntStr(2 * i - 1 + i)
    \o ",\"offset\":" \o IntStr(10 * (line - 1) + 2 * i - 2 + i) \o "}}"

\* the coverage command's JSON report, its locations on the given lines
CoverageJson(ulines, elines) ==
    "{\"expressions\":{\"covered_count\":3,\"uncovered_count\":" \o IntStr(Len(ulines))
    \o ",\"uncovered_locs\":["
    \o JoinStr([i \in 1..Len(ulines) |-> CoverageLocJson(ulines[i], i)], ",")
    \o "],\"empty_count\":" \o IntStr(Len(elines)) \o ",\"empty_locs\":["
    \o JoinStr([i \in 1..Len(elines) |-> CoverageLocJson(elines[i], i)], ",")
    \o "]}}"

LineSeqs == UNION {[1..k -> 1..MaxLine] : k \in 0..MaxLocs}

CoverageTexts == {"{}"} \cup {CoverageJson(u, e) : u, e \in LineSeqs}

\* what flow prints instead of a report, and JSON of other shapes
NoConfigText == "Could not find a .flowconfig in . or any of its parent directories."
RawTexts ==
    {NoConfigText, "", "[{\"errors\":[]}", "{}", "[]", "[{},{},{}]", "5", "null",
     "\"ab\"", "[1,2]", "{\"a\":1,\"b\":2}"}

\* the outputs find_errors is called with
Outputs ==
    {FormatPair(c, "{}") : c \in CheckTexts}
    \cup {FormatPair(c, v) : c \in {CheckJson(<<>>), CheckJson(<<ScenarioAError>>)},
                             v \in CoverageTexts}
    \cup RawTexts

\* the outputs of the calls that are open at once
CallOutputs ==
    {FormatPair(CheckJson(<<>>), CoverageJson(<<1, 1>>, <<1>>)),
     FormatPair(CheckJson(<<ScenarioAError>>), CoverageJson(<<1>>, <<>>)),
     ""}

\* what the check and coverage commands print during Flow.run
RunCheckTexts == {CheckJson(<<>>), CheckJson(<<ScenarioAError>>), NoConfigText, "null"}
RunCoverageTexts == {"{}", CoverageJson(<<1, 1>>, <<1>>), NoConfigText}

\* the source texts handed to Flow.run
Codes == {"", "// @flow\nvar x = 1", "/* @flo w */", "var x = 1"}

\* the values of an inline setting; Unset: the setting is not given
SettingValues ==
    {Unset, PyBool(TRUE), PyBool(FALSE), PyStr("False"), PyStr("false"),
     PyStr("0"), PyStr("true")}

\* a dict of the fields of r that are given
MkDict(r) == PyDict([k \in {x \in DOMAIN r : r[x] # Unset} |-> r[k]])

\* Flow.defaults with the inline settings `all` and `coverage`
Settings(all, coverage, show) ==
    MkDict([selector |-> PyStr("source.js"), all |-> all, coverage |-> coverage]
           @@ ("show-all-errors" :> PyBool(show)))

DefaultSettings == Settings(Unset, Unset, TRUE)

\* a parsed FlowLoc
Loc(source, sl, sc, el, ec) ==
    PyDict([source |-> PyStr(source),
            start |-> PyDict([line |-> PyInt(sl), column |-> PyInt(sc)]),
            end |-> PyDict([line |-> PyInt(el), column |-> PyInt(ec)])])

\* a parsed FlowMessage; Unset: the field is absent
Msg(type, descr, context, loc) ==
    MkDict([type |-> PyStr(type), descr |-> PyStr(descr), context |-> context,
            loc |-> loc])

\* the messages of the errors under study
Messages ==
    {Msg("Comment", " bad ", None, Unset),
     Msg("Blame", "x", PyStr("a x"), Loc(ThisFile, 1, 3, 1, 3)),
     Msg("Blame", "number", PyStr("y = 1"), Loc(OtherFile, 1, 1, 1, 1)),
     Msg("Blame", "d", None, Loc(ThisFile, 1, 1, 1, 1)),
     Msg("Blame", "z", PyStr("  z"), Loc(ThisFile, 1, 3, 2, 1)),
     Msg("Other", "o", Unset, Unset)}

\* a node of FlowExtra
ExtraNode(msgs, children) ==
    MkDict([message |-> PyList(msgs), children |-> children])

\* the messages of the `extra` trees, each named after its place in the tree
ExtraMsg(place, source) ==
    Msg("Blame", place, PyStr(place), Loc(source, 1, 1, 1, 1))

\* the `extra` of the errors under study: absent, null, or a tree of two
\* nodes the first of which has a child
Extras ==
    {Unset, None}
    \cup {PyList(<<ExtraNode(<<ExtraMsg("a", fa)>>,
                             PyList(<<ExtraNode(<<ExtraMsg("b", fb)>>, None)>>)),
                   ExtraNode(<<ExtraMsg("c", fc)>>, Unset)>>) :
              fa, fb, fc \in {ThisFile, OtherFile}}

MessageLists == UNION {[1..k -> Messages] : k \in 0..MaxMsgs}

\* the errors under study
Errors ==
    {MkDict([kind |-> PyStr("InferError"), level |-> PyStr("error"),
             operation |-> op, message |-> PyList(ms), extra |-> ex]) :
         op \in Messages \cup {Unset}, ms \in MessageLists, ex \in Extras}

\* the messages under study for Flow._format_message
Contexts == {Unset, None, PyStr(""), PyStr("x"), PyStr("a x"), PyStr(" foo(x)")}
Descrs == {"x", " x ", "foo", "number"}
Columns == {PyInt(c) : c \in 0..MaxCol} \cup {Unset}
FormatLocs ==
    {Unset, EmptyDict}
    \cup {PyDict([source |-> PyStr(ThisFile),
                  start |-> MkDict([line |-> PyInt(1), column |-> sc]),
                  end |-> MkDict([line |-> PyInt(1), column |-> ec])]) :
              sc, ec \in Columns}
FormatMessages ==
    {Msg(ty, d, c, l) : ty \in {"Blame", "Comment", "Other"}, d \in Descrs,
                        c \in Contexts, l \in FormatLocs}

-----------------------------------------------------------------------------
(* Operations *)

\* Flow.run, to its pragma test: returns '' or goes on to the check command
RunBegin ==
    /\ runPc = "idle"
    /\ \E c \in Codes :
        /\ code' = c
        /\ IF ~Contains(c, "@flow") /\ ~Truthy(_inline_setting_bool("all"))
           THEN runPc' = "returned" /\ runResult' = PyStr("")
           ELSE runPc' = "check" /\ UNCHANGED runResult
    /\ UNCHANGED <<filename, settings, check, invocations, calls, heap, arg, ret>>

\* check = super().run(cmd, code); and the return when coverage is off
RunCheck ==
    /\ runPc = "check"
    /\ \E out \in RunCheckTexts :
        /\ check' = out
        /\ invocations' = Append(invocations, cmd)
        /\ IF Truthy(_inline_setting_bool("coverage"))
           THEN runPc' = "coverage" /\ UNCHANGED runResult
           ELSE runPc' = "returned" /\ runResult' = PyStr(FormatPair(out, "{}"))
    /\ UNCHANGED <<filename, settings, code, calls, heap, arg, ret>>

\* coverage = super().run(_build_coverage_cmd(cmd), code); and the return
RunCoverage ==
    /\ runPc = "coverage"
    /\ \E out \in RunCoverageTexts :
        /\ invocations' = Append(invocations, _build_coverage_cmd(cmd))
        /\ runResult' = PyStr(FormatPair(check, out))
    /\ runPc' = "returned"
    /\ UNCHANGED <<filename, settings, code, check, calls, heap, arg, ret>>

\* the call record of a find_errors call that returned r, its sets at ids
NewCall(output, r, ids) ==
    IF r.kind = "chain"
    THEN [output |-> output, state |-> "open", errors |-> r.errors,
          uncovered |-> r.uncovered, empty |-> r.empty,
          uncovered_lines |-> ids[1], empty_lines |-> ids[2],
          pos |-> 0, yielded |-> <<>>, exc |-> None]
    ELSE [output |-> output,
          state |-> IF r.kind = "list" THEN "open" ELSE "raised",
          errors |-> <<>>, uncovered |-> <<>>, empty |-> <<>>,
          uncovered_lines |-> 0, empty_lines |-> 0,
          pos |-> 0, yielded |-> <<>>,
          exc |-> IF r.kind = "list" THEN None ELSE r.exc]

\* the heap once the chain's two sets are allocated at ids
HeapWith(h, r, ids) ==
    IF r.kind = "chain"
    THEN [i \in 1..Max(Len(h), Max(ids[1], ids[2])) |->
             IF i <= Len(h) THEN h[i] ELSE {}]
    ELSE h

Began(output, r, ids) ==
    /\ calls' = Append(calls, NewCall(output, r, ids))
    /\ heap' = HeapWith(heap, r, ids)

\* find_errors(output): a new call and the iterator it returns
FindErrors(output) ==
    /\ Began(output, find_errors(output), AllocSets(heap))
    /\ UNCHANGED <<filename, settings, runPc, code, check, invocations,
                   runResult, arg, ret>>

\* what the n-th item of call's chain maps to: the tuple or the exception,
\* the set the mapper was handed (0: none) and the lines it leaves in it
MapItem(call, n) ==
    IF n <= Len(call.errors)
    THEN [tuple |-> _error_to_tuple(call.errors[n]), set |-> 0, lines |-> {}]
    ELSE IF n <= Len(call.errors) + Len(call.uncovered)
    THEN _uncovered_to_tuple(call.uncovered[n - Len(call.errors)],
                             heap[call.uncovered_lines])
         @@ [set |-> call.uncovered_lines]
    ELSE _empty_to_tuple(call.empty[n - Len(call.errors) - Len(call.uncovered)],
                         heap[call.empty_lines])
         @@ [set |-> call.empty_lines]

\* the effect of the n-th next() of call c, which mapped to r
Yielded(c, n, r) ==
    IF IsRaise(r.tuple)
    THEN /\ calls' = [calls EXCEPT ![c].state = "raised", ![c].exc = r.tuple]
         /\ UNCHANGED heap
    ELSE /\ calls' = [calls EXCEPT ![c].pos = n, ![c].yielded = Append(@, r.tuple)]
         /\ heap' = IF r.set = 0 THEN heap ELSE [heap EXCEPT ![r.set] = r.lines]

\* next() on the sequence call c returned: the next tuple, the exception of
\* the mapper, or the end of the sequence
Consume(c) ==
    /\ calls[c].state = "open"
    /\ IF calls[c].pos >= Len(calls[c].errors) + Len(calls[c].uncovered)
                          + Len(calls[c].empty)
       THEN /\ calls' = [calls EXCEPT ![c].state = "done"]
            /\ UNCHANGED heap
       ELSE Yielded(c, calls[c].pos + 1, MapItem(calls[c], calls[c].pos + 1))
    /\ UNCHANGED <<filename, settings, runPc, code, check, invocations,
                   runResult, arg, ret>>

\* a call of Flow._find_matching_msg_for_file on the error under study
CallFindMatching ==
    /\ ret.matching = Unset
    /\ ret' = [ret EXCEPT !.matching = _find_matching_msg_for_file(arg)]
    /\ UNCHANGED <<filename, settings, runPc, code, check, invocations,
                   runResult, calls, heap, arg>>

\* a call of Flow._error_to_tuple on the error under study
CallErrorToTuple ==
    /\ ret.matching # Unset
    /\ ret.tuple = Unset
    /\ ret' = [ret EXCEPT !.tuple = _error_to_tuple(arg)]
    /\ UNCHANGED <<filename, settings, runPc, code, check, invocations,
                   runResult, calls, heap, arg>>

\* a call of Flow._format_message on the message under study
CallFormatMessage ==
    /\ ret.formatted = Unset
    /\ ret' = [ret EXCEPT !.formatted = _format_message(arg)]
    /\ UNCHANGED <<filename, settings, runPc, code, check, invocations,
                   runResult, calls, heap, arg>>

-----------------------------------------------------------------------------
(* Specifications *)

\* the linter as constructed, before any call
Idle ==
    /\ filename = ThisFile
    /\ runPc = "idle"
    /\ code = ""
    /\ check = ""
    /\ invocations = <<>>
    /\ runResult = None
    /\ calls = <<>>
    /\ heap = <<>>
    /\ ret = [matching |-> Unset, tuple |-> Unset, formatted |-> Unset]

\* one find_errors call and the consumption of its sequence
Init ==
    /\ Idle
    /\ settings = DefaultSettings
    /\ arg = None

Next ==
    \/ calls = <<>> /\ \E output \in Outputs : FindErrors(output)
    \/ \E c \in 1..Len(calls) : Consume(c)

Spec == Init /\ [][Next]_vars

\* several find_errors calls on one linter, their sequences consumed in any order
NextCalls ==
    \/ Len(calls) < MaxCalls /\ \E output \in CallOutputs : FindErrors(output)
    \/ \E c \in 1..Len(calls) : Consume(c)

SpecCalls == Init /\ [][NextCalls]_vars

\* Flow.run under every inline setting, and find_errors on what it returns
InitRun ==
    /\ Idle
    /\ \E all \in SettingValues, coverage \in {Unset, PyBool(TRUE), PyStr("0")},
          show \in BOOLEAN :
           settings = Settings(all, coverage, show)
    /\ arg = None

NextRun ==
    \/ RunBegin
    \/ RunCheck
    \/ RunCoverage
    \/ runPc = "returned" /\ calls = <<>> /\ FindErrors(runResult.s)
    \/ \E c \in 1..Len(calls) : Consume(c)

SpecRun == InitRun /\ [][NextRun]_vars

\* Flow._find_matching_msg_for_file and Flow._error_to_tuple on every error
InitError ==
    /\ Idle
    /\ settings = DefaultSettings
    /\ arg \in Errors

NextError == CallFindMatching \/ CallErrorToTuple

SpecError == InitError /\ [][NextError]_vars

\* Flow._format_message on every message
InitFormat ==
    /\ Idle
    /\ settings = DefaultSettings
    /\ arg \in FormatMessages

NextFormat == CallFormatMessage

SpecFormat == InitFormat /\ [][NextFormat]_vars

-----------------------------------------------------------------------------
(* Properties *)

\* the candidate order as the specification words it: the `operation`
\* message, then the `message` list, then `extra` depth first, a node's own
\* messages before its children
RECURSIVE ClaimDfs(_), ClaimNodes(_)
ClaimDfs(extra) == IF extra.t = "list" THEN ClaimNodes(extra.a) ELSE <<>>
ClaimNodes(nodes) ==
    IF nodes = <<>> THEN <<>>
    ELSE Head(nodes).d.message.a
         \o (IF "children" \in DOMAIN Head(nodes).d
             THEN ClaimDfs(Head(nodes).d.children) ELSE <<>>)
         \o ClaimNodes(Tail(nodes))

ClaimCandidates(e) ==
    (IF "operation" \in DOMAIN e.d THEN <<e.d.operation>> ELSE <<>>)
    \o e.d.message.a
    \o (IF "extra" \in DOMAIN e.d THEN ClaimDfs(e.d.extra) ELSE <<>>)

\* whether message m has a location in the file under inspection
InThisFile(m) ==
    /\ "loc" \in DOMAIN m.d
    /\ m.d.loc.t = "dict"
    /\ "source" \in DOMAIN m.d.loc.d
    /\ m.d.loc.d.source = PyStr(filename)

\* the places of the candidates of e that are located in this file
Hits(e) == {i \in 1..Len(ClaimCandidates(e)) : InThisFile(ClaimCandidates(e)[i])}

FirstHit(e) == CHOOSE i \in Hits(e) : \A j \in Hits(e) : i <= j

\* C1: _find_matching_msg_for_file returns the first candidate located in the
\* file under inspection, in the order operation, message list, extra depth
\* first (a node's messages before its children), and None exactly when no
\* candidate is located there.
C1_FirstCandidateInFile ==
    ret.matching # Unset =>
        IF Hits(arg) = {} THEN ret.matching = None
        ELSE ret.matching = ClaimCandidates(arg)[FirstHit(arg)]

\* C1 witness: the match was found in the child of an `extra` node, past an
\* operation, a message and an `extra` message of another file, and a later
\* candidate of this file was passed over.
C1_Witness ==
    /\ ret.matching # Unset
    /\ Cardinality(Hits(arg)) >= 2
    /\ FirstHit(arg) >= 4
    /\ ret.matching = ExtraMsg("b", ThisFile)

\* the output of scenario A: its check report and an empty coverage report
ScenarioAOutput == FormatPair(CheckJson(<<ScenarioAError>>), "{}")

\* C2 as stated: scenario A yields exactly one diagnostic, (True, 1, 2,
\* 'InferError', False, 'bad', '"x"').
C2_ScenarioA_NearX ==
    \A c \in 1..Len(calls) :
        calls[c].output = ScenarioAOutput /\ calls[c].state = "done" =>
            calls[c].yielded =
                <<Tuple(PyBool(TRUE), PyInt(1), PyInt(2), PyStr("InferError"),
                        PyBool(FALSE), PyStr("bad"), PyStr("\"x\""))>>

\* C2 amended: scenario A yields exactly one diagnostic, (True, 1, 2,
\* 'InferError', False, 'bad', '""'): the slice 'x'[2:4] is empty, so near is
\* two double quotes.
C2_ScenarioA_NearEmpty ==
    \A c \in 1..Len(calls) :
        calls[c].output = ScenarioAOutput /\ calls[c].state \in {"done", "raised"} =>
            /\ calls[c].state = "done"
            /\ calls[c].yielded =
                   <<Tuple(PyBool(TRUE), PyInt(1), PyInt(2), PyStr("InferError"),
                           PyBool(FALSE), PyStr("bad"), PyStr("\"\""))>>

\* C2 witness: the sequence of scenario A was consumed to its end.
C2_Witness ==
    \E c \in 1..Len(calls) :
        /\ calls[c].output = ScenarioAOutput
        /\ calls[c].state = "done"
        /\ Len(calls[c].yielded) = 1

\* the outputs that parse as a [check, coverage] pair whose errors have the
\* RawError shape: no `operation`, no `extra`, an empty `message` list, a
\* null `context`, a `loc` without `end.line`, a `type` other than Blame and
\* Comment
ShapedOutputs == {FormatPair(CheckJson(<<e>>), "{}") : e \in ShapedErrors}

\* C3 as stated: consuming the sequence find_errors returns for a report of
\* shaped errors, optional fields absent or null, never raises.
C3_NeverRaises ==
    \A c \in 1..Len(calls) :
        calls[c].output \in ShapedOutputs => calls[c].state # "raised"

\* the 0-based line of a coverage location
LineOf(loc) == loc.d.start.d.line.n - 1

\* whether the k-th tuple call yielded, a coverage tuple, carries the message
\* of its place: the descriptive text of its category when no earlier
\* location of that category in this call is on its line, the ditto mark
\* otherwise
CoverageMessageOk(call, k) ==
    LET ne == Len(call.errors)
        nu == Len(call.uncovered)
        inU == k <= ne + nu
        list == IF inU THEN call.uncovered ELSE call.empty
        j == IF inU THEN k - ne ELSE k - ne - nu
        first == \A i \in 1..(j - 1) : LineOf(list[i]) # LineOf(list[j])
    IN call.yielded[k].message =
           PyStr(IF ~first THEN DittoMark
                 ELSE IF inU THEN "Code is not covered by Flow (any type)"
                 ELSE "Code is not covered by Flow (empty type)")

\* C4: within one find_errors call and one coverage category, the first
\* location on a line gets the descriptive message and every later one on
\* that line the ditto mark; the two categories do not share their lines.
C4_DittoPerLineAndCategory ==
    \A c \in 1..Len(calls) :
        \A k \in (Len(calls[c].errors) + 1)..Len(calls[c].yielded) :
            CoverageMessageOk(calls[c], k)

\* C4 witness: a call reported line 0 twice as uncovered and then once more
\* as empty.
C4_Witness ==
    \E c \in 1..Len(calls) :
        /\ Len(calls[c].uncovered) = 2
        /\ LineOf(calls[c].uncovered[1]) = LineOf(calls[c].uncovered[2])
        /\ Len(calls[c].empty) >= 1
        /\ LineOf(calls[c].empty[1]) = LineOf(calls[c].uncovered[1])
        /\ Len(calls[c].yielded) = Len(calls[c].errors) + 3
        /\ calls[c].yielded[Len(calls[c].errors) + 2].message = PyStr(DittoMark)
        /\ calls[c].yielded[Len(calls[c].errors) + 3].message # PyStr(DittoMark)

\* whether sequence a is a prefix of sequence b
IsPrefix(a, b) == Len(a) <= Len(b) /\ a = SubSeq(b, 1, Len(a))

\* C5: the seen-line sets belong to one find_errors call: whatever other
\* calls were made and however the sequences are consumed, what a call yields
\* is decided by its own output, and the first location of a category on a
\* line gets the descriptive message even when an earlier call reported the
\* line.
C5_SetsScopedToCall ==
    /\ \A c \in 1..Len(calls) :
           \A k \in (Len(calls[c].errors) + 1)..Len(calls[c].yielded) :
               CoverageMessageOk(calls[c], k)
    /\ \A c, d \in 1..Len(calls) :
           calls[c].output = calls[d].output =>
               \/ IsPrefix(calls[c].yielded, calls[d].yielded)
               \/ IsPrefix(calls[d].yielded, calls[c].yielded)

\* C5 witness: a second call reported a line as uncovered that the first
\* call, whose sequence is still open, had already reported.
C5_Witness ==
    /\ Len(calls) >= 2
    /\ calls[1].state = "open"
    /\ calls[1].uncovered # <<>> /\ calls[2].uncovered # <<>>
    /\ LineOf(calls[1].uncovered[1]) = LineOf(calls[2].uncovered[1])
    /\ Len(calls[1].yielded) = Len(calls[1].errors) + 1
    /\ Len(calls[2].yielded) > Len(calls[2].errors)

\* C6 as stated: when the output is not a JSON [check, coverage] pair,
\* find_errors returns an empty sequence and does not raise.
C6_NotAPairGivesEmpty ==
    \A c \in 1..Len(calls) :
        calls[c].output \in RawTexts \ {"[1,2]"} =>
            calls[c].state # "raised" /\ calls[c].yielded = <<>>

\* whether an inline setting is truthy: given, true as a Python value, and
\* not one of 'False', 'false', '0'
ClaimTruthy(name) ==
    /\ name \in DOMAIN settings.d
    /\ settings.d[name] \notin {PyBool(FALSE), PyStr(""), None, PyInt(0),
                               PyStr("False"), PyStr("false"), PyStr("0")}

\* C7: run invokes the checker only when the code has the @flow pragma or
\* `all` is truthy; otherwise it returns '' without an invocation, and
\* find_errors of that yields nothing.  The coverage command comes only after
\* the check command and only when `coverage` is truthy.
C7_CheckerOnlyWithPragmaOrAll ==
    /\ invocations # <<>> => Contains(code, "@flow") \/ ClaimTruthy("all")
    /\ runPc # "idle" /\ ~Contains(code, "@flow") /\ ~ClaimTruthy("all") =>
           /\ runPc = "returned"
           /\ runResult = PyStr("")
           /\ invocations = <<>>
           /\ \A c \in 1..Len(calls) :
                  calls[c].state # "raised" /\ calls[c].yielded = <<>>
    /\ \A i \in 1..Len(invocations) :
           "coverage" \in {invocations[i][j] : j \in 1..Len(invocations[i])} =>
               /\ i = 2
               /\ "check-contents" \in {invocations[1][j] : j \in 1..Len(invocations[1])}
               /\ ClaimTruthy("coverage")
    /\ Len(invocations) <= 2

\* C7 witness: `all` is set to 'false', the code has no pragma, run returned
\* without an invocation and the sequence find_errors made of '' was consumed.
C7_Witness ==
    /\ PyGet(settings, "all", None) = PyStr("false")
    /\ ~Contains(code, "@flow")
    /\ runPc = "returned"
    /\ invocations = <<>>
    /\ calls # <<>>
    /\ calls[1].state = "done"

\* whether every candidate of e is a Blame or a Comment
InDataModel(e) ==
    \A i \in 1..Len(ClaimCandidates(e)) :
        ClaimCandidates(e)[i].d.type \in {PyStr("Blame"), PyStr("Comment")}

\* C8 as stated: when some candidate is located in this file, the message of
\* the diagnostic is the single-space join of _format_message over the
\* error's `message` list.
C8_MessageIsJoin ==
    ret.tuple # Unset /\ InDataModel(arg) /\ Hits(arg) # {} =>
        /\ ret.tuple.t = "tuple"
        /\ ret.tuple.message =
               PyJoin(" ", [i \in 1..Len(arg.d.message.a) |->
                               _format_message(arg.d.message.a[i])])

\* the slice context[start_column - 1 : end_column], columns counted from 1
ClaimSlice(context, sc, ec) ==
    IF sc <= Min(ec, Len(context)) THEN SubSeq(context, sc, Min(ec, Len(context)))
    ELSE ""

\* whether the message under study is a Blame with a context and a location
\* whose columns are given, counted from 1
BlameWithLocation(m) ==
    /\ m.d.type = PyStr("Blame")
    /\ "context" \in DOMAIN m.d /\ m.d.context.t = "str"
    /\ "loc" \in DOMAIN m.d /\ DOMAIN m.d.loc.d # {}
    /\ "column" \in DOMAIN m.d.loc.d.start.d /\ "column" \in DOMAIN m.d.loc.d.end.d
    /\ m.d.loc.d.start.d.column.n >= 1

\* C9 as stated: for a Blame with a context and a location, the result is
\* the trimmed slice alone when the slice equals the trimmed descr, and
\* '<slice> (<descr>)' when it differs.
C9_SliceAloneOrParenthetical ==
    ret.formatted # Unset /\ BlameWithLocation(arg) =>
        LET slice == ClaimSlice(arg.d.context.s, arg.d.loc.d.start.d.column.n,
                                arg.d.loc.d.end.d.column.n)
            descr == Strip(arg.d.descr.s)
        IN ret.formatted =
               PyStr(IF slice = descr THEN Strip(slice)
                     ELSE slice \o " (" \o descr \o ")")

\* C9 amended: when the slice equals the trimmed descr the result is the
\* whole context, trimmed, without a parenthetical; when it differs the
\* result is '<slice> (<descr>)', trimmed.
C9_ContextAloneOrParenthetical ==
    ret.formatted # Unset /\ BlameWithLocation(arg) =>
        LET slice == ClaimSlice(arg.d.context.s, arg.d.loc.d.start.d.column.n,
                                arg.d.loc.d.end.d.column.n)
            descr == Strip(arg.d.descr.s)
        IN ret.formatted =
               PyStr(IF slice = descr THEN Strip(arg.d.context.s)
                     ELSE Strip(slice \o " (" \o descr \o ")"))

\* C9 witness: the slice 'x' of the context 'a x' equals the descr, and the
\* whole context was returned.
C9_Witness ==
    /\ ret.formatted = PyStr("a x")
    /\ BlameWithLocation(arg)
    /\ arg.d.context = PyStr("a x")
    /\ ClaimSlice("a x", arg.d.loc.d.start.d.column.n, arg.d.loc.d.end.d.column.n) = "x"
    /\ Strip(arg.d.descr.s) = "x"

\* C10 as stated: when no candidate is located in this file, _error_to_tuple
\* returns the placeholder (False, None, None, False, False, '', None).
C10_PlaceholderWhenNoMatch ==
    ret.tuple # Unset /\ InDataModel(arg) /\ Hits(arg) = {} =>
        ret.tuple = Tuple(PyBool(FALSE), None, None, PyBool(FALSE), PyBool(FALSE),
                          PyStr(""), None)

=============================================================================
